---- MODULE Spec2Model ----
(***************************************************************************)
(* Model of app/main.py: the MCP (JSON-RPC 2.0) endpoint of the Python     *)
(* MCP server, its four tools and the outbound archival call.              *)
(*                                                                         *)
(* A Python str is a finite sequence of symbols.  The literal pieces of a  *)
(* format string are single symbols, so f"Result: {x}" is                  *)
(* <<"Result: ">> \o str(x).  A JSON value is a record                     *)
(* [t, n, e, s]: its type tag, its integer (or, for a float, the           *)
(* numerator of n / 2^e), and its text or its list of elements.            *)
(***************************************************************************)
EXTENDS Integers, Sequences, FiniteSets, TLC

(* ---------------------------- bounds ---------------------------------- *)

\* integers of the inputs range over -1..MaxInt
MaxInt == 2
\* strings of the inputs have at most MaxLen symbols
MaxLen == 2
\* request slots (concurrent connections) of the server
NumSlots == 2

\* the integer arguments of the arithmetic calls range over
\* -MaxArith..MaxArith
MaxArith == 12

\* the texts given to reverse have at most MaxRevLen symbols
MaxRevLen == 4

Alphabet == {"a", "b"}

Strings == UNION {[1..k -> Alphabet] : k \in 0..MaxLen}

Ints == (-1)..MaxInt

(* ---------------------------- JSON values ----------------------------- *)

V(t, n, e, s) == [t |-> t, n |-> n, e |-> e, s |-> s]

Null == V("null", 0, 0, <<>>)

BoolV(b) == V("bool", IF b THEN 1 ELSE 0, 0, <<>>)

IntV(i) == V("int", i, 0, <<>>)

\* the float n / 2^e
FloatV(n, e) == V("float", n, e, <<>>)

StrV(s) == V("str", 0, 0, s)

\* a list of one-symbol strings
ListV(s) == V("list", 0, 0, s)

\* the empty object, as a value nested in params
EmptyDict == V("dict", 0, 0, <<>>)

\* marks a key that a dict does not hold
Absent == V("absent", 0, 0, <<>>)

ArgKeys == {"a", "b", "text", "conversation"}

NoEntries == [k \in ArgKeys |-> Absent]

\* the value of params["arguments"]: any JSON value; d holds a dict's entries
Args(v, d) == [t |-> v.t, n |-> v.n, e |-> v.e, s |-> v.s, d |-> d]

DictArgs(d) == Args(EmptyDict, d)

(* ---------------------------- Python str() ---------------------------- *)

DigitChars == <<"0", "1", "2", "3", "4", "5", "6", "7", "8", "9">>

RECURSIVE NatToStr(_)
NatToStr(n) ==
    IF n < 10 THEN <<DigitChars[n + 1]>>
    ELSE NatToStr(n \div 10) \o <<DigitChars[(n % 10) + 1]>>

\* str(int)
IntToStr(i) == IF i < 0 THEN <<"-">> \o NatToStr(-i) ELSE NatToStr(i)

RECURSIVE Pow2(_)
Pow2(e) == IF e = 0 THEN 1 ELSE 2 * Pow2(e - 1)

\* the decimal digits of the fraction r / m, 0 <= r < m, m a power of two
RECURSIVE FracToStr(_, _)
FracToStr(r, m) ==
    IF r = 0 THEN <<>>
    ELSE <<DigitChars[((10 * r) \div m) + 1]>> \o FracToStr((10 * r) % m, m)

\* repr(float) of the float n / 2^e (small magnitude: no exponent notation)
FloatToStr(n, e) ==
    LET m == Pow2(e)
        a == IF n < 0 THEN -n ELSE n
        frac == FracToStr(a % m, m)
    IN  (IF n < 0 THEN <<"-">> ELSE <<>>) \o NatToStr(a \div m) \o <<".">>
            \o (IF frac = <<>> THEN <<"0">> ELSE frac)

\* str(v), as an f-string field renders v
PyStr(v) ==
    CASE v.t = "str" -> v.s
      [] v.t = "int" -> IntToStr(v.n)
      [] v.t = "float" -> FloatToStr(v.n, v.e)
      [] v.t = "bool" -> IF v.n = 1 THEN <<"True">> ELSE <<"False">>
      [] v.t = "null" -> <<"None">>
      [] v.t = "list" -> <<"[">> \o v.s \o <<"]">>
      [] OTHER -> <<"{", "}">>

\* sub occurs in s as a contiguous run of symbols
Contains(s, sub) ==
    \E i \in 0..(Len(s) - Len(sub)) :
        \A j \in 1..Len(sub) : s[i + j] = sub[j]

(* ---------------------------- Python primitives ----------------------- *)

\* the outcome of a call: a returned str, or a raised exception
Ok(text) == [ok |-> TRUE, exc |-> "", text |-> text]

Raise(exc, text) == [ok |-> FALSE, exc |-> exc, text |-> text]

\* type(v).__name__
TypeName(t) ==
    CASE t = "null" -> "NoneType"
      [] t = "bool" -> "bool"
      [] t = "int" -> "int"
      [] t = "float" -> "float"
      [] t = "str" -> "str"
      [] t = "list" -> "list"
      [] OTHER -> "dict"

\* `key in args` can be evaluated: args is a container
Iterable(args) == args.t \in {"dict", "str", "list"}

\* `key in args` for a container: a dict's key, a str's substring, a list's
\* element
PyIn(key, args) ==
    CASE args.t = "dict" -> args.d[key] # Absent
      [] args.t = "str" -> Contains(args.s, <<key>>)
      [] OTHER -> \E i \in 1..Len(args.s) : args.s[i] = key

\* the TypeError of `key in args` for an args that is no container
NotIterable(args) ==
    Raise("TypeError",
          <<"argument of type '", TypeName(args.t), "' is not iterable">>)

\* the TypeError of args[key] for a str or a list
BadIndex(args) ==
    Raise("TypeError",
          IF args.t = "str" THEN <<"string indices must be integers, not 'str'">>
          ELSE <<"list indices must be integers or slices, not str">>)

\* isinstance(v, (int, float)): bool is a subclass of int
IsNumber(v) == v.t \in {"int", "float", "bool"}

\* isinstance(v, str)
IsStr(v) == v.t = "str"

Max(x, y) == IF x >= y THEN x ELSE y

\* a + b on numbers: exact on int (and bool), float when either is a float
PyAdd(a, b) ==
    IF a.t # "float" /\ b.t # "float" THEN IntV(a.n + b.n)
    ELSE LET e == Max(a.e, b.e)
         IN  FloatV(a.n * Pow2(e - a.e) + b.n * Pow2(e - b.e), e)

\* a * b mistyped as a + b
PyMulAsSum(a, b) == PyAdd(a, b)

\* a * b on numbers
PyMul(a, b) ==
    IF a.t # "float" /\ b.t # "float" THEN IntV(a.n * b.n)
    ELSE FloatV(a.n * b.n, a.e + b.e)

\* s[-1:0:-1]: the slice stops before the first symbol
ReverseDropFirst(s) == [i \in 1..(Len(s) - 1) |-> s[Len(s) + 1 - i]]

\* s[::-1]
Reverse(s) == [i \in 1..Len(s) |-> s[Len(s) + 1 - i]]

(* ---------------------------- the tools ------------------------------- *)

add_tool(args) ==
    IF ~Iterable(args) THEN NotIterable(args)
    ELSE IF ~PyIn("a", args) \/ ~PyIn("b", args)
    THEN Raise("ValueError", <<"Missing parameters: a and b">>)
    ELSE IF args.t # "dict" THEN BadIndex(args)
    ELSE IF ~IsNumber(args.d["a"]) \/ ~IsNumber(args.d["b"])
    THEN Raise("ValueError", <<"Parameters a and b must be numbers">>)
    ELSE Ok(<<"Result: ">> \o PyStr(PyAdd(args.d["a"], args.d["b"])))

reverse_tool(args) ==
    IF ~Iterable(args) THEN NotIterable(args)
    ELSE IF ~PyIn("text", args)
    THEN Raise("ValueError", <<"Missing parameter: text">>)
    ELSE IF args.t # "dict" THEN BadIndex(args)
    ELSE IF ~IsStr(args.d["text"])
    THEN Raise("ValueError", <<"Parameter text must be a string">>)
    ELSE Ok(<<"Result: ">> \o Reverse(args.d["text"].s))

multiply_tool(args) ==
    IF ~Iterable(args) THEN NotIterable(args)
    ELSE IF ~PyIn("a", args) \/ ~PyIn("b", args)
    THEN Raise("ValueError", <<"Missing parameters: a and b">>)
    ELSE IF args.t # "dict" THEN BadIndex(args)
    ELSE IF ~IsNumber(args.d["a"]) \/ ~IsNumber(args.d["b"])
    THEN Raise("ValueError", <<"Parameters a and b must be numbers">>)
    ELSE Ok(<<"Result: ">> \o PyStr(PyMul(args.d["a"], args.d["b"])))

\* the validation without its isinstance(args["conversation"], str)
SaveValidateAnyType(args) ==
    IF ~Iterable(args) THEN NotIterable(args)
    ELSE IF ~PyIn("conversation", args)
    THEN Raise("ValueError", <<"Missing required parameter: conversation">>)
    ELSE IF args.t # "dict" THEN BadIndex(args)
    ELSE Ok(<<>>)

\* save_conversation_tool up to its try block: Ok(<<>>) when the checks pass
SaveValidate(args) ==
    IF ~Iterable(args) THEN NotIterable(args)
    ELSE IF ~PyIn("conversation", args)
    THEN Raise("ValueError", <<"Missing required parameter: conversation">>)
    ELSE IF args.t # "dict" THEN BadIndex(args)
    ELSE IF ~IsStr(args.d["conversation"])
    THEN Raise("ValueError", <<"Parameter conversation must be a string">>)
    ELSE Ok(<<>>)

(* ---------------------------- the archival API ------------------------ *)

\* what the outbound POST comes to: a response (status, body text), or an
\* httpx exception with its str()
Outcome(kind, status, body) == [kind |-> kind, status |-> status, body |-> body]

NoOutcome == Outcome("none", 0, <<>>)

UrlBody(u) == <<"{", "\"url\"", ":", "\"", u, "\"", "}">>

Bodies ==
    { <<>>, <<"Internal Server Error">>, <<"[", "]">>, <<"{", "}">>,
      <<"{", "\"url\"", ":", "null", "}">>, UrlBody("http://archive/c/1") }

Statuses == {200, 201, 500}

Outcomes ==
    {Outcome("response", st, b) : st \in Statuses, b \in Bodies}
        \cup { Outcome("ConnectError", 0, <<"All connection attempts failed">>),
               Outcome("ReadTimeout", 0, <<>>) }

\* httpx.ConnectError and httpx.ReadTimeout are httpx.RequestError
IsRequestError(exc) == exc \in {"ConnectError", "ReadTimeout"}

\* response.json() followed by result.get('url', 'N/A')
JsonUrl(body) ==
    IF body = <<"{", "}">> THEN Ok(<<"N/A">>)
    ELSE IF Len(body) = 5 /\ SubSeq(body, 1, 3) = <<"{", "\"url\"", ":">>
            /\ body[4] = "null" /\ body[5] = "}"
    THEN Ok(PyStr(Null))
    ELSE IF Len(body) = 7 /\ body = UrlBody(body[5])
    THEN Ok(<<body[5]>>)
    ELSE IF body = <<"[", "]">>
    THEN Raise("AttributeError", <<"'list' object has no attribute 'get'">>)
    ELSE Raise("JSONDecodeError", <<"Expecting value: line 1 column 1 (char 0)">>)

\* the try block taking every 2xx status for success
SaveTryAny2xx(o) ==
    IF o.kind # "response" THEN Raise(o.kind, o.body)
    ELSE IF o.status \in 200..299
    THEN LET url == JsonUrl(o.body)
         IN  IF url.ok
             THEN Ok(<<"Conversation saved successfully! View it at: ">> \o url.text)
             ELSE url
    ELSE Raise("ValueError",
               <<"API request failed: ">> \o IntToStr(o.status) \o <<" - ">> \o o.body)

\* the body of the try block once the POST has come to `o`
SaveTry(o) ==
    IF o.kind # "response" THEN Raise(o.kind, o.body)
    ELSE IF o.status = 201
    THEN LET url == JsonUrl(o.body)
         IN  IF url.ok
             THEN Ok(<<"Conversation saved successfully! View it at: ">> \o url.text)
             ELSE url
    ELSE Raise("ValueError",
               <<"API request failed: ">> \o IntToStr(o.status) \o <<" - ">> \o o.body)

\* the two except clauses of save_conversation_tool
SaveExcept(r) ==
    IF r.ok THEN r
    ELSE IF IsRequestError(r.exc)
    THEN Raise("ValueError", <<"Failed to connect to scraper server: ">> \o r.text)
    ELSE Raise("ValueError", <<"Error saving conversation: ">> \o r.text)

\* save_conversation_tool from the return of the POST on
SaveFinish(o) == SaveExcept(SaveTry(o))

(* ---------------------------- envelopes ------------------------------- *)

MCP_ERRORS ==
    [PARSE_ERROR |-> -32700, INVALID_REQUEST |-> -32600,
     METHOD_NOT_FOUND |-> -32601, INVALID_PARAMS |-> -32602,
     INTERNAL_ERROR |-> -32603]

\* MCPRequest.params: None, or a dict that holds the keys `keys`
Params(t, keys, name, arguments) ==
    [t |-> t, keys |-> keys, name |-> name, arguments |-> arguments]

NoArgs == Args(Null, NoEntries)

NoParams == Params("null", {}, Null, NoArgs)

MCPRequest(jsonrpc, method, params, id) ==
    [jsonrpc |-> jsonrpc, method |-> method, params |-> params, id |-> id]

\* the registry, in the order of its keys
TOOLS == <<"add", "reverse", "multiply", "save_conversation">>

ToolNames == {TOOLS[i] : i \in 1..Len(TOOLS)}

Schema(name, required) == [name |-> name, required |-> required]

\* the descriptors without the one of save_conversation
TOOL_SCHEMAS_NoSave ==
    << Schema("add", <<"a", "b">>),
       Schema("reverse", <<"text">>),
       Schema("multiply", <<"a", "b">>) >>

TOOL_SCHEMAS ==
    << Schema("add", <<"a", "b">>),
       Schema("reverse", <<"text">>),
       Schema("multiply", <<"a", "b">>),
       Schema("save_conversation", <<"conversation">>) >>

Result(kind, content, tools, protocolVersion, capabilities, serverInfo) ==
    [kind |-> kind, content |-> content, tools |-> tools,
     protocolVersion |-> protocolVersion, capabilities |-> capabilities,
     serverInfo |-> serverInfo]

NoResult == Result("none", <<>>, <<>>, <<>>, {}, <<>>)

InitializeResult ==
    Result("initialize", <<>>, <<>>, <<"2025-06-18">>, {"tools"},
           <<"Python MCP Server", "1.0.0">>)

ToolsResult == Result("tools", <<>>, TOOL_SCHEMAS, <<>>, {}, <<>>)

ContentResult(text) ==
    Result("content", <<[type |-> "text", text |-> text]>>, <<>>, <<>>, {}, <<>>)

Error(code, message) == [code |-> code, message |-> message]

NoError == Error(0, <<>>)

\* a response dict: the keys it holds and their values
Envelope(keys, jsonrpc, id, result, error) ==
    [keys |-> keys, jsonrpc |-> jsonrpc, id |-> id, result |-> result,
     error |-> error]

NoEnvelope == Envelope({}, <<>>, Null, NoResult, NoError)

ResultEnvelope(id, result) ==
    Envelope({"jsonrpc", "id", "result"}, <<"2.0">>, id, result, NoError)

\* an error response that does not echo the id
ErrorEnvelopeNullId(id, code, message) ==
    Envelope({"jsonrpc", "id", "error"}, <<"2.0">>, Null, NoResult,
             Error(code, message))

ErrorEnvelope(id, code, message) ==
    Envelope({"jsonrpc", "id", "error"}, <<"2.0">>, id, NoResult,
             Error(code, message))

\* what the transport sends back: a JSON body, or a bare status
Reply(status, json, envelope) ==
    [status |-> status, json |-> json, envelope |-> envelope]

\* a returned dict is sent as 200 with the dict as JSON body
JsonReply(envelope) == Reply(200, TRUE, envelope)

\* Response(status_code=204)
NoContent == Reply(204, FALSE, NoEnvelope)

\* an exception that leaves mcp_endpoint: the framework's 500
ServerFault == Reply(500, FALSE, NoEnvelope)

(* ---------------------------- mcp_endpoint ---------------------------- *)

\* how a stretch of mcp_endpoint ends: it returns a reply, raises, or
\* suspends in the outbound POST; `invoked` lists the handlers it called
Return(reply, invoked) ==
    [kind |-> "return", reply |-> reply, exc |-> "", text |-> <<>>,
     invoked |-> invoked]

Raised(exc, text, invoked) ==
    [kind |-> "raise", reply |-> ServerFault, exc |-> exc, text |-> text,
     invoked |-> invoked]

Await(invoked) ==
    [kind |-> "await", reply |-> ServerFault, exc |-> "", text |-> <<>>,
     invoked |-> invoked]

\* the classes `except Exception` does not catch
BaseOnly == {"CancelledError", "KeyboardInterrupt", "SystemExit"}

IsException(exc) == exc \notin BaseOnly

\* `not request.id and request.method`: 0 and "" taken for a missing id
IsNotificationFalsyId(req) ==
    /\ req.id \in {Null, IntV(0), StrV(<<>>)}
    /\ Len(req.method) > 0

\* request.id is None and request.method
IsNotification(req) == req.id.t = "null" /\ Len(req.method) > 0

\* the check without its `"arguments" not in request.params`
MissingName(req) ==
    \/ req.params.t = "null"
    \/ req.params.keys = {}
    \/ "name" \notin req.params.keys

\* not request.params or "name" not in ... or "arguments" not in ...
MissingNameArguments(req) ==
    \/ req.params.t = "null"
    \/ req.params.keys = {}
    \/ "name" \notin req.params.keys
    \/ "arguments" \notin req.params.keys

\* request.jsonrpc != "2.0" also letting "1.0" through
VersionOkOneToo(req) == req.jsonrpc \in {<<"2.0">>, <<"1.0">>}

\* not (request.jsonrpc != "2.0")
VersionOk(req) == req.jsonrpc = <<"2.0">>

\* the message without the method's name
MethodNotFoundBare(method) == <<"Method not found">>

\* f"Method not found: {request.method}"
MethodNotFoundMessage(method) == <<"Method not found: ">> \o method

\* hash(tool_name) succeeds
Hashable(v) == v.t \notin {"list", "dict"}

\* tool_name in TOOLS, for a hashable tool_name
InTools(v) == v.t = "str" /\ Len(v.s) = 1 /\ v.s[1] \in ToolNames

\* the try/except with `except ValueError` instead of `except Exception`
ToolTryValueError(req, r, invoked) ==
    IF r.ok
    THEN Return(JsonReply(ResultEnvelope(req.id, ContentResult(r.text))), invoked)
    ELSE IF r.exc = "ValueError"
    THEN Return(JsonReply(ErrorEnvelope(req.id, MCP_ERRORS.INVALID_PARAMS, r.text)),
                invoked)
    ELSE Raised(r.exc, r.text, invoked)

\* the try/except around the handler call: the success envelope, or
\* INVALID_PARAMS for an Exception
ToolTry(req, r, invoked) ==
    IF r.ok
    THEN Return(JsonReply(ResultEnvelope(req.id, ContentResult(r.text))), invoked)
    ELSE IF IsException(r.exc)
    THEN Return(JsonReply(ErrorEnvelope(req.id, MCP_ERRORS.INVALID_PARAMS, r.text)),
                invoked)
    ELSE Raised(r.exc, r.text, invoked)

\* TOOLS[tool_name](tool_args) for a synchronous tool
CallTool(tool, args) ==
    CASE tool = "add" -> add_tool(args)
      [] tool = "reverse" -> reverse_tool(args)
      [] OTHER -> multiply_tool(args)

\* the tools/call branch
ToolsCall(req) ==
    IF MissingNameArguments(req)
    THEN Return(JsonReply(ErrorEnvelope(req.id, MCP_ERRORS.INVALID_PARAMS,
                                        <<"Missing name/arguments">>)), <<>>)
    ELSE LET tool_name == req.params.name
             tool_args == req.params.arguments
         IN  IF ~Hashable(tool_name)
             THEN Raised("TypeError",
                         <<"unhashable type: '", TypeName(tool_name.t), "'">>, <<>>)
             ELSE IF ~InTools(tool_name)
             THEN Return(JsonReply(ErrorEnvelope(req.id, MCP_ERRORS.METHOD_NOT_FOUND,
                                   <<"Unknown tool: ">> \o PyStr(tool_name))), <<>>)
             ELSE IF tool_name.s[1] = "save_conversation"
             THEN LET v == SaveValidate(tool_args)
                  IN  IF v.ok THEN Await(<<"save_conversation">>)
                      ELSE ToolTry(req, v, <<"save_conversation">>)
             ELSE ToolTry(req, CallTool(tool_name.s[1], tool_args),
                          <<tool_name.s[1]>>)

\* the body of the outer try
Route(req) ==
    IF IsNotification(req) THEN Return(NoContent, <<>>)
    ELSE IF ~VersionOk(req)
    THEN Return(JsonReply(ErrorEnvelope(req.id, MCP_ERRORS.INVALID_REQUEST,
                                        <<"Invalid jsonrpc">>)), <<>>)
    ELSE IF req.method = <<"initialize">>
    THEN Return(JsonReply(ResultEnvelope(req.id, InitializeResult)), <<>>)
    ELSE IF req.method = <<"tools/list">>
    THEN Return(JsonReply(ResultEnvelope(req.id, ToolsResult)), <<>>)
    ELSE IF req.method = <<"tools/call">>
    THEN ToolsCall(req)
    ELSE Return(JsonReply(ErrorEnvelope(req.id, MCP_ERRORS.METHOD_NOT_FOUND,
                                        MethodNotFoundMessage(req.method))), <<>>)

\* the endpoint without its outer try/except: the exception leaves it
CatchReraise(req, step) == step

\* the outer except: INTERNAL_ERROR for an Exception
Catch(req, step) ==
    IF step.kind = "raise" /\ IsException(step.exc)
    THEN Return(JsonReply(ErrorEnvelope(req.id, MCP_ERRORS.INTERNAL_ERROR, step.text)),
                step.invoked)
    ELSE step

\* mcp_endpoint up to its return or its suspension
mcp_endpoint(req) == Catch(req, Route(req))

\* mcp_endpoint from the return of the outbound POST on
mcp_resume(req, o) ==
    Catch(req, ToolTry(req, SaveFinish(o), <<"save_conversation">>))

(* ---------------------------- the inputs ------------------------------ *)

IdValues == {Null, IntV(0), IntV(1), StrV(<<>>)}

Versions == {<<"2.0">>, <<"1.0">>}

Methods ==
    {<<"initialize">>, <<"tools/list">>, <<"tools/call">>, <<"tools/List">>, <<>>}

FloatValues == {FloatV(3, 1), FloatV(2, 0)}

\* the values tried for the arguments a and b
NumberLeaves ==
    {Null, BoolV(TRUE), StrV(<<"a">>), ListV(<<>>), EmptyDict}
        \cup {IntV(i) : i \in Ints} \cup FloatValues

\* the values tried for the arguments text and conversation
TextLeaves ==
    {Null, IntV(0), ListV(<<>>)} \cup {StrV(s) : s \in Strings}

DictArgValues ==
    {DictArgs([NoEntries EXCEPT !["a"] = x, !["b"] = y]) :
        x \in NumberLeaves \cup {Absent}, y \in NumberLeaves \cup {Absent}}
    \cup {DictArgs([NoEntries EXCEPT !["text"] = x]) : x \in TextLeaves}
    \cup {DictArgs([NoEntries EXCEPT !["conversation"] = x]) : x \in TextLeaves}

\* an `arguments` that is no mapping
OtherArgValues ==
    {Args(v, NoEntries) :
        v \in {Null, BoolV(TRUE), IntV(0), FloatV(3, 1)}
                \cup {StrV(s) : s \in Strings} \cup {ListV(s) : s \in Strings}}

ArgValues == DictArgValues \cup OtherArgValues

NameValues ==
    {StrV(<<n>>) : n \in ToolNames} \cup {StrV(s) : s \in Strings}
        \cup {Null, BoolV(TRUE), IntV(0), FloatV(3, 1), ListV(<<>>), EmptyDict}

ParamValues ==
    {NoParams, Params("dict", {}, Null, NoArgs)}
    \cup {Params("dict", {"name"}, n, NoArgs) : n \in NameValues}
    \cup {Params("dict", {"arguments"}, Null, a) : a \in ArgValues}
    \cup {Params("dict", {"name", "arguments"}, n, a) :
            n \in NameValues, a \in ArgValues}

Requests ==
    {MCPRequest(v, m, p, i) :
        v \in Versions, m \in Methods, p \in ParamValues, i \in IdValues}

(* ---------------------------- the server ------------------------------ *)

VARIABLES
    pc,        \* where each connection's call of mcp_endpoint stands
    request,   \* the MCPRequest it was called with
    replies,   \* the replies sent on the connection, in order
    invoked,   \* the tool handlers the call has invoked, in order
    posts,     \* the outbound POSTs the call has issued
    outcome,   \* what the outbound POST came to
    arrival    \* the connections that were suspended when the request arrived

vars == <<pc, request, replies, invoked, posts, outcome, arrival>>

Slots == 1..NumSlots

NoRequest == MCPRequest(<<>>, <<>>, NoParams, Null)

Init ==
    /\ pc = [s \in Slots |-> "idle"]
    /\ request = [s \in Slots |-> NoRequest]
    /\ replies = [s \in Slots |-> <<>>]
    /\ invoked = [s \in Slots |-> <<>>]
    /\ posts = [s \in Slots |-> 0]
    /\ outcome = [s \in Slots |-> NoOutcome]
    /\ arrival = [s \in Slots |-> {}]

\* the reply a finished stretch sends: a returned reply, or the 500 of an
\* exception that left the endpoint
Sent(step) == IF step.kind = "return" THEN step.reply ELSE ServerFault

\* a POST /mcp arrives and validates as an MCPRequest, one of `universe`
Submit(s, universe) ==
    /\ pc[s] = "idle"
    /\ pc' = [pc EXCEPT ![s] = "received"]
    /\ \E r \in universe : request' = [request EXCEPT ![s] = r]
    /\ arrival' = [arrival EXCEPT ![s] = {t \in Slots : pc[t] = "awaiting"}]
    /\ UNCHANGED <<replies, invoked, posts, outcome>>

\* Dispatch calling the coroutine function without `await`: the POST is
\* started and the reply is sent at once, with the coroutine for result
DispatchNoAwait(s) ==
    /\ pc[s] = "received"
    /\ LET step == mcp_endpoint(request[s])
       IN  /\ invoked' = [invoked EXCEPT ![s] = step.invoked]
           /\ pc' = [pc EXCEPT ![s] = "done"]
           /\ IF step.kind = "await"
              THEN /\ posts' = [posts EXCEPT ![s] = posts[s] + 1]
                   /\ replies' = [replies EXCEPT ![s] = Append(replies[s],
                          JsonReply(ResultEnvelope(request[s].id,
                              ContentResult(<<"<coroutine object save_conversation_tool>">>))))]
              ELSE /\ replies' = [replies EXCEPT ![s] = Append(replies[s], Sent(step))]
                   /\ UNCHANGED posts
    /\ UNCHANGED <<request, outcome, arrival>>

\* Dispatch with a blocking POST (a synchronous client inside the
\* coroutine): nothing runs while another call waits for its POST
DispatchBlocking(s) ==
    /\ pc[s] = "received"
    /\ \A t \in Slots : pc[t] # "awaiting"
    /\ LET step == mcp_endpoint(request[s])
       IN  /\ invoked' = [invoked EXCEPT ![s] = step.invoked]
           /\ IF step.kind = "await"
              THEN /\ pc' = [pc EXCEPT ![s] = "awaiting"]
                   /\ posts' = [posts EXCEPT ![s] = posts[s] + 1]
                   /\ UNCHANGED replies
              ELSE /\ pc' = [pc EXCEPT ![s] = "done"]
                   /\ replies' = [replies EXCEPT ![s] = Append(replies[s], Sent(step))]
                   /\ UNCHANGED posts
    /\ UNCHANGED <<request, outcome, arrival>>

\* mcp_endpoint runs to its return, or to the await of the outbound POST
Dispatch(s) ==
    /\ pc[s] = "received"
    /\ LET step == mcp_endpoint(request[s])
       IN  /\ invoked' = [invoked EXCEPT ![s] = step.invoked]
           /\ IF step.kind = "await"
              THEN /\ pc' = [pc EXCEPT ![s] = "awaiting"]
                   /\ posts' = [posts EXCEPT ![s] = posts[s] + 1]
                   /\ UNCHANGED replies
              ELSE /\ pc' = [pc EXCEPT ![s] = "done"]
                   /\ replies' = [replies EXCEPT ![s] = Append(replies[s], Sent(step))]
                   /\ UNCHANGED posts
    /\ UNCHANGED <<request, outcome, arrival>>

\* the outbound POST returns a response, fails, or times out: one of
\* `universe`
PostCompletes(s, universe) ==
    /\ pc[s] = "awaiting"
    /\ pc' = [pc EXCEPT ![s] = "resumed"]
    /\ \E o \in universe : outcome' = [outcome EXCEPT ![s] = o]
    /\ UNCHANGED <<request, replies, invoked, posts, arrival>>

\* Resume polling: after a failed POST the call waits for the POST again,
\* however often it fails
ResumePoll(s) ==
    /\ pc[s] = "resumed"
    /\ LET step == mcp_resume(request[s], outcome[s])
           failed == "error" \in Sent(step).envelope.keys
       IN  IF failed
           THEN /\ pc' = [pc EXCEPT ![s] = "awaiting"]
                /\ outcome' = [outcome EXCEPT ![s] = NoOutcome]
                /\ UNCHANGED replies
           ELSE /\ pc' = [pc EXCEPT ![s] = "done"]
                /\ replies' = [replies EXCEPT ![s] = Append(replies[s], Sent(step))]
                /\ UNCHANGED outcome
    /\ UNCHANGED <<request, invoked, posts, arrival>>

\* Resume with a retry: after a failed POST the call posts again, up to
\* three times, before it answers
ResumeRetry(s) ==
    /\ pc[s] = "resumed"
    /\ LET step == mcp_resume(request[s], outcome[s])
           failed == "error" \in Sent(step).envelope.keys
       IN  IF failed /\ posts[s] < 3
           THEN /\ pc' = [pc EXCEPT ![s] = "awaiting"]
                /\ posts' = [posts EXCEPT ![s] = posts[s] + 1]
                /\ UNCHANGED replies
           ELSE /\ pc' = [pc EXCEPT ![s] = "done"]
                /\ replies' = [replies EXCEPT ![s] = Append(replies[s], Sent(step))]
                /\ UNCHANGED posts
    /\ UNCHANGED <<request, invoked, outcome, arrival>>

\* Resume reading the POST's result from one module-level variable, which
\* holds the result of the first call that was resumed
ResumeSharedResult(s) ==
    /\ pc[s] = "resumed"
    /\ LET first == CHOOSE t \in Slots :
                        pc[t] = "resumed" /\ \A u \in Slots : pc[u] = "resumed" => t <= u
           step == mcp_resume(request[s], outcome[first])
       IN  replies' = [replies EXCEPT ![s] = Append(replies[s], Sent(step))]
    /\ pc' = [pc EXCEPT ![s] = "done"]
    /\ UNCHANGED <<request, invoked, posts, outcome, arrival>>

\* mcp_endpoint runs on from the await to its return
Resume(s) ==
    /\ pc[s] = "resumed"
    /\ LET step == mcp_resume(request[s], outcome[s])
       IN  replies' = [replies EXCEPT ![s] = Append(replies[s], Sent(step))]
    /\ pc' = [pc EXCEPT ![s] = "done"]
    /\ UNCHANGED <<request, invoked, posts, outcome, arrival>>

\* the connection is closed and its slot is free for the next request
Close(s) ==
    /\ pc[s] = "done"
    /\ pc' = [pc EXCEPT ![s] = "idle"]
    /\ request' = [request EXCEPT ![s] = NoRequest]
    /\ replies' = [replies EXCEPT ![s] = <<>>]
    /\ invoked' = [invoked EXCEPT ![s] = <<>>]
    /\ posts' = [posts EXCEPT ![s] = 0]
    /\ outcome' = [outcome EXCEPT ![s] = NoOutcome]
    /\ arrival' = [arrival EXCEPT ![s] = {}]

\* one connection at a time, any request
Next ==
    \/ Submit(1, Requests)
    \/ Dispatch(1)
    \/ PostCompletes(1, Outcomes)
    \/ Resume(1)
    \/ Close(1)

Spec == Init /\ [][Next]_vars

(* ---------------------------- arithmetic calls ------------------------ *)

\* a tools/call of `name` with the dict `d` for arguments
ToolRequest(id, name, d) ==
    MCPRequest(<<"2.0">>, <<"tools/call">>,
               Params("dict", {"name", "arguments"}, StrV(<<name>>), DictArgs(d)), id)

\* the calls of add and multiply with integer a and b
ArithRequests ==
    {ToolRequest(i, n, [NoEntries EXCEPT !["a"] = IntV(a), !["b"] = IntV(b)]) :
        i \in IdValues \ {Null}, n \in {"add", "multiply"},
        a \in (-MaxArith)..MaxArith, b \in (-MaxArith)..MaxArith}

NextArith ==
    \/ Submit(1, ArithRequests)
    \/ Dispatch(1)
    \/ Close(1)

SpecArith == Init /\ [][NextArith]_vars

(* ---------------------------- reverse calls --------------------------- *)

\* Unicode scalars: one, two and four bytes long in UTF-8
RevAlphabet == {"a", "U+00E9", "U+1F600"}

RevStrings == UNION {[1..k -> RevAlphabet] : k \in 0..MaxRevLen}

ReverseRequest(id, text) ==
    ToolRequest(id, "reverse", [NoEntries EXCEPT !["text"] = StrV(text)])

ReverseRequests ==
    {ReverseRequest(i, x) : i \in IdValues \ {Null}, x \in RevStrings}

\* the client of connection s sends the text of the answer it got back to
\* reverse, on connection t
Chain(s, t) ==
    /\ pc[s] = "done" /\ pc[t] = "idle"
    /\ Len(replies[s]) = 1
    /\ replies[s][1].envelope.result.kind = "content"
    /\ pc' = [pc EXCEPT ![t] = "received"]
    /\ request' = [request EXCEPT ![t] =
            ReverseRequest(request[s].id,
                           Tail(replies[s][1].envelope.result.content[1].text))]
    /\ arrival' = [arrival EXCEPT ![t] = {u \in Slots : pc[u] = "awaiting"}]
    /\ UNCHANGED <<replies, invoked, posts, outcome>>

NextReverse ==
    \/ Submit(1, ReverseRequests)
    \/ Dispatch(1)
    \/ Chain(1, 2)
    \/ Dispatch(2)

SpecReverse == Init /\ [][NextReverse]_vars

(* ---------------------------- concurrent requests --------------------- *)

SaveRequest(id, text) ==
    ToolRequest(id, "save_conversation",
                [NoEntries EXCEPT !["conversation"] = StrV(text)])

\* the requests the concurrent connections send
ConcRequests ==
    { SaveRequest(IntV(0), <<"a">>),
      SaveRequest(IntV(1), <<"b">>),
      ToolRequest(IntV(1), "add", [NoEntries EXCEPT !["a"] = IntV(2), !["b"] = IntV(1)]),
      MCPRequest(<<"2.0">>, <<"tools/list">>, NoParams, StrV(<<>>)),
      SaveRequest(Null, <<"a">>) }

\* what their outbound POSTs come to
ConcOutcomes ==
    { Outcome("response", 201, UrlBody("http://archive/c/1")),
      Outcome("response", 500, <<"Internal Server Error">>),
      Outcome("ConnectError", 0, <<"All connection attempts failed">>),
      Outcome("ReadTimeout", 0, <<>>) }

\* every connection serves requests, the event loop interleaving their
\* stretches at the await of the outbound POST
NextConc ==
    \E s \in Slots :
        \/ Submit(s, ConcRequests)
        \/ Dispatch(s)
        \/ PostCompletes(s, ConcOutcomes)
        \/ Resume(s)
        \/ Close(s)

SpecConc == Init /\ [][NextConc]_vars

\* the event loop runs every ready stretch, and the POST's timeout ends
\* every outbound call
SpecLive ==
    /\ Init /\ [][NextConc]_vars
    /\ \A s \in Slots :
          /\ WF_vars(Dispatch(s))
          /\ WF_vars(PostCompletes(s, ConcOutcomes))
          /\ WF_vars(Resume(s))

(* ---------------------------- the claims ------------------------------ *)

\* the call on connection s has returned
Finished(s) == pc[s] = "done"

HasId(s) == request[s].id # Null

\* rep is a JSON-RPC error response with the code `code`
IsErrorReply(rep, code) ==
    /\ rep.status = 200 /\ rep.json
    /\ rep.envelope.keys \cap {"result", "error"} = {"error"}
    /\ rep.envelope.error.code = code

\* rep is a JSON-RPC success response
IsResultReply(rep) ==
    /\ rep.status = 200 /\ rep.json
    /\ rep.envelope.keys \cap {"result", "error"} = {"result"}

\* a tools/call with an id and version "2.0"
IsToolsCall(s) ==
    /\ HasId(s)
    /\ request[s].jsonrpc = <<"2.0">>
    /\ request[s].method = <<"tools/call">>

\* C1: a call sends at most one reply; a finished request that carries an
\* id (0 and "" included) has sent exactly one response envelope, which holds
\* exactly one of the keys result and error; a notification (no id, a
\* method) sends no envelope at all.
C1_OneResponse ==
    \A s \in Slots :
        /\ Len(replies[s]) <= 1
        /\ Finished(s) /\ HasId(s) =>
              /\ Len(replies[s]) = 1
              /\ replies[s][1].status = 200 /\ replies[s][1].json
              /\ Cardinality(replies[s][1].envelope.keys \cap {"result", "error"}) = 1
        /\ request[s].id = Null /\ request[s].method # <<>> =>
              \A i \in 1..Len(replies[s]) : ~replies[s][i].json

\* C1 witness: a tools/call with the id "" has been answered with a result.
C1_Witness ==
    \E s \in Slots :
        /\ Finished(s) /\ request[s].id = StrV(<<>>)
        /\ request[s].method = <<"tools/call">>
        /\ IsResultReply(replies[s][1])

\* C2 (as claimed): every envelope without an id, whatever its method, is
\* answered with a bare 204 and invokes no handler.
C2_AnyMethodNotification ==
    \A s \in Slots :
        Finished(s) /\ request[s].id = Null =>
            replies[s] = <<NoContent>> /\ invoked[s] = <<>>

\* C3 (as claimed): every envelope whose jsonrpc is not "2.0" is answered
\* with INVALID_REQUEST and invokes no handler.
C3_AnyEnvelope ==
    \A s \in Slots :
        Finished(s) /\ request[s].jsonrpc # <<"2.0">> =>
            IsErrorReply(replies[s][1], -32600) /\ invoked[s] = <<>>

\* C3 (amended): every envelope that is not a notification (it has an id, or
\* its method is empty) and whose jsonrpc is not "2.0" is answered with
\* INVALID_REQUEST whatever its method and params, and invokes no handler.
C3_VersionFirst ==
    \A s \in Slots :
        /\ Finished(s) /\ request[s].jsonrpc # <<"2.0">>
        /\ ~(request[s].id = Null /\ request[s].method # <<>>)
        => IsErrorReply(replies[s][1], -32600) /\ invoked[s] = <<>>

\* C3 witness: a well-formed call of add under version "1.0" has been refused.
C3_Witness ==
    \E s \in Slots :
        /\ Finished(s) /\ HasId(s) /\ request[s].jsonrpc = <<"1.0">>
        /\ request[s].method = <<"tools/call">>
        /\ request[s].params.name = StrV(<<"add">>)
        /\ request[s].params.arguments.d["a"] = IntV(2)
        /\ request[s].params.arguments.d["b"] = IntV(1)
        /\ IsErrorReply(replies[s][1], -32600)

\* C4 (as claimed): a tools/call with name and arguments whose name is no
\* registered tool, whatever JSON value it is, is answered with
\* METHOD_NOT_FOUND, the message naming the tool, and invokes no handler.
C4_UnknownTool ==
    \A s \in Slots :
        /\ Finished(s) /\ IsToolsCall(s)
        /\ request[s].params.keys = {"name", "arguments"}
        /\ request[s].params.name \notin {StrV(<<n>>) : n \in ToolNames}
        => /\ IsErrorReply(replies[s][1], -32601)
           /\ Contains(replies[s][1].envelope.error.message,
                       PyStr(request[s].params.name))
           /\ invoked[s] = <<>>

\* C5: once a handler has been invoked, the reply is a result or an
\* INVALID_PARAMS error with a message, never INTERNAL_ERROR and never a
\* fault; arguments that are no mapping, a failed or timed-out POST, and a
\* missing argument of add or multiply all end in INVALID_PARAMS.
C5_HandlerFailures ==
    \A s \in Slots :
        Finished(s) /\ invoked[s] # <<>> =>
            LET rep == replies[s][1]
                args == request[s].params.arguments
            IN  /\ Len(invoked[s]) = 1
                /\ IsResultReply(rep) \/ IsErrorReply(rep, -32602)
                /\ ~IsResultReply(rep) => rep.envelope.error.message # <<>>
                /\ args.t # "dict" => IsErrorReply(rep, -32602)
                /\ outcome[s].kind \in {"ConnectError", "ReadTimeout"} =>
                      IsErrorReply(rep, -32602)
                /\ /\ invoked[s][1] \in {"add", "multiply"} /\ args.t = "dict"
                   /\ Absent \in {args.d["a"], args.d["b"]}
                   => /\ IsErrorReply(rep, -32602)
                      /\ rep.envelope.error.message = <<"Missing parameters: a and b">>

\* C5 witness: add was invoked with null for arguments and the reply is
\* INVALID_PARAMS.
C5_Witness ==
    \E s \in Slots :
        /\ Finished(s) /\ invoked[s] = <<"add">>
        /\ request[s].params.arguments.t = "null"
        /\ IsErrorReply(replies[s][1], -32602)

\* C6 (as claimed): a call of add or multiply in which a or b is present and
\* is no JSON number (a string, a boolean, null, a list, an object) is
\* answered with INVALID_PARAMS, and so is a call of reverse whose text is
\* no string.
C6_WrongType ==
    \A s \in Slots :
        Finished(s) /\ invoked[s] # <<>> /\ request[s].params.arguments.t = "dict" =>
            LET d == request[s].params.arguments.d
                NotNumber(v) == v # Absent /\ v.t \notin {"int", "float"}
            IN  /\ /\ invoked[s][1] \in {"add", "multiply"}
                   /\ NotNumber(d["a"]) \/ NotNumber(d["b"])
                   => IsErrorReply(replies[s][1], -32602)
                /\ /\ invoked[s][1] = "reverse"
                   /\ d["text"] # Absent /\ d["text"].t # "str"
                   => IsErrorReply(replies[s][1], -32602)

\* C7: a tools/call whose params are null, empty, or lack name or arguments is
\* answered with INVALID_PARAMS "Missing name/arguments" before any lookup of
\* the name, and invokes no handler.
C7_MissingNameArguments ==
    \A s \in Slots :
        /\ Finished(s) /\ IsToolsCall(s)
        /\ \/ request[s].params.t = "null"
           \/ "name" \notin request[s].params.keys
           \/ "arguments" \notin request[s].params.keys
        => /\ IsErrorReply(replies[s][1], -32602)
           /\ replies[s][1].envelope.error.message = <<"Missing name/arguments">>
           /\ invoked[s] = <<>>

\* C7 witness: a tools/call that names an unknown tool and has no arguments
\* has been answered.
C7_Witness ==
    \E s \in Slots :
        /\ Finished(s) /\ IsToolsCall(s)
        /\ request[s].params.keys = {"name"}
        /\ request[s].params.name = StrV(<<"a">>)
        /\ IsErrorReply(replies[s][1], -32602)

\* C8: a request with an id and version "2.0" whose method is none of
\* initialize, tools/list, tools/call is answered with METHOD_NOT_FOUND, the
\* message containing the method, and invokes no handler.
C8_UnknownMethod ==
    \A s \in Slots :
        /\ Finished(s) /\ HasId(s) /\ request[s].jsonrpc = <<"2.0">>
        /\ request[s].method \notin {<<"initialize">>, <<"tools/list">>, <<"tools/call">>}
        => /\ IsErrorReply(replies[s][1], -32601)
           /\ Contains(replies[s][1].envelope.error.message, request[s].method)
           /\ invoked[s] = <<>>

\* C8 witness: the near-miss tools/List has been answered.
C8_Witness ==
    \E s \in Slots :
        /\ Finished(s) /\ HasId(s) /\ request[s].jsonrpc = <<"2.0">>
        /\ request[s].method = <<"tools/List">>
        /\ IsErrorReply(replies[s][1], -32601)

\* the POST came to a 201 whose body is a JSON object
UsableCreated(o) ==
    /\ o.kind = "response" /\ o.status = 201
    /\ Len(o.body) > 0 /\ o.body[1] = "{"

\* C9: a save_conversation whose POST came to anything but a 201 with a
\* usable body is answered with INVALID_PARAMS; for a status other than 201
\* the message contains the status code and the body text.
C9_DownstreamFailure ==
    \A s \in Slots :
        Finished(s) /\ outcome[s] # NoOutcome /\ ~UsableCreated(outcome[s]) =>
            /\ posts[s] = 1
            /\ IsErrorReply(replies[s][1], -32602)
            /\ outcome[s].kind = "response" /\ outcome[s].status # 201 =>
                  /\ Contains(replies[s][1].envelope.error.message,
                              IntToStr(outcome[s].status))
                  /\ Contains(replies[s][1].envelope.error.message, outcome[s].body)

\* C9 witness: the archival API answered 500 and the call has returned.
C9_Witness ==
    \E s \in Slots :
        /\ Finished(s)
        /\ outcome[s] = Outcome("response", 500, <<"Internal Server Error">>)
        /\ IsErrorReply(replies[s][1], -32602)

\* C10: every response envelope has jsonrpc "2.0" and the id of its request,
\* null when the request had none.
C10_EchoId ==
    \A s \in Slots :
        \A i \in 1..Len(replies[s]) :
            replies[s][i].json =>
                /\ {"jsonrpc", "id"} \subseteq replies[s][i].envelope.keys
                /\ replies[s][i].envelope.jsonrpc = <<"2.0">>
                /\ replies[s][i].envelope.id = request[s].id

\* C10 witness: an envelope without an id and with the empty method has been
\* answered with an envelope.
C10_Witness ==
    \E s \in Slots :
        /\ Finished(s) /\ request[s].id = Null /\ request[s].method = <<>>
        /\ replies[s][1].json

\* C11: while a call is suspended in its outbound POST, every other call can
\* take its next step (run to its return or its own await, have its POST
\* come back, resume): none of them waits for the suspended call.
C11_NotBlocked ==
    \A s \in Slots : \A t \in Slots \ {s} :
        pc[s] = "awaiting" =>
            /\ pc[t] = "idle" => ENABLED Submit(t, ConcRequests)
            /\ pc[t] = "received" => ENABLED Dispatch(t)
            /\ pc[t] = "awaiting" => ENABLED PostCompletes(t, ConcOutcomes)
            /\ pc[t] = "resumed" => ENABLED Resume(t)

\* C11 witness: a save_conversation that arrived while another call was
\* suspended has been answered, and that call is still suspended.
C11_Witness ==
    \E s \in Slots : \E t \in Slots \ {s} :
        /\ pc[s] = "awaiting" /\ s \in arrival[t]
        /\ Finished(t) /\ invoked[t] = <<"save_conversation">>
        /\ posts[t] = 1 /\ Len(replies[t]) = 1

\* the reply to `req` when it is served alone and its POST comes to `o`
AloneReply(req, o) ==
    LET first == mcp_endpoint(req)
    IN  IF first.kind = "await" THEN Sent(mcp_resume(req, o)) ELSE Sent(first)

\* C12: whatever the interleaving, a finished call has sent exactly the reply
\* its own request gets alone with the same outcome of its own POST, and a
\* call that has not finished has sent nothing.
C12_Independent ==
    \A s \in Slots :
        /\ Finished(s) => replies[s] = <<AloneReply(request[s], outcome[s])>>
        /\ ~Finished(s) => replies[s] = <<>>
        /\ Finished(s) /\ posts[s] = 0 => outcome[s] = NoOutcome

\* C12 witness: two save_conversation calls with different ids have both
\* been answered, one with a result and one with an error.
C12_Witness ==
    \E s \in Slots : \E t \in Slots \ {s} :
        /\ Finished(s) /\ Finished(t)
        /\ posts[s] = 1 /\ posts[t] = 1
        /\ request[s].id # request[t].id
        /\ IsResultReply(replies[s][1])
        /\ IsErrorReply(replies[t][1], -32602)

\* the four descriptors: name and required keys
DeclaredTools ==
    << [name |-> "add", required |-> <<"a", "b">>],
       [name |-> "reverse", required |-> <<"text">>],
       [name |-> "multiply", required |-> <<"a", "b">>],
       [name |-> "save_conversation", required |-> <<"conversation">>] >>

\* C13: tools/list with an id and version "2.0" returns the four declared
\* descriptors in order, after any earlier requests; a tools/call invokes a
\* handler exactly when its name is one of the listed names, the handler of
\* that name, and a listed name is never answered with METHOD_NOT_FOUND.
C13_Registry ==
    \A s \in Slots :
        /\ /\ Finished(s) /\ HasId(s) /\ request[s].jsonrpc = <<"2.0">>
           /\ request[s].method = <<"tools/list">>
           => /\ IsResultReply(replies[s][1])
              /\ replies[s][1].envelope.result.kind = "tools"
              /\ replies[s][1].envelope.result.tools = DeclaredTools
        /\ /\ Finished(s) /\ IsToolsCall(s)
           /\ request[s].params.keys = {"name", "arguments"}
           => LET listed == {StrV(<<DeclaredTools[i].name>>) : i \in 1..Len(DeclaredTools)}
                  name == request[s].params.name
              IN  /\ invoked[s] # <<>> <=> name \in listed
                  /\ name \in listed =>
                        /\ invoked[s] = <<name.s[1]>>
                        /\ ~IsErrorReply(replies[s][1], -32601)

\* C13 witness: tools/list has been answered with four descriptors.
C13_Witness ==
    \E s \in Slots :
        /\ Finished(s) /\ HasId(s) /\ request[s].method = <<"tools/list">>
        /\ IsResultReply(replies[s][1])
        /\ Len(replies[s][1].envelope.result.tools) = 4

\* the number a string of decimal digits denotes
RECURSIVE DecimalValue(_)
DecimalValue(d) ==
    IF d = <<>> THEN 0
    ELSE 10 * DecimalValue(SubSeq(d, 1, Len(d) - 1))
            + (CHOOSE k \in 0..9 : DigitChars[k + 1] = d[Len(d)])

\* d is the decimal numeral of the natural number n, without leading zeros
IsNatNumeral(d, n) ==
    /\ Len(d) >= 1
    /\ \A i \in 1..Len(d) : \E k \in 0..9 : DigitChars[k + 1] = d[i]
    /\ Len(d) > 1 => d[1] # "0"
    /\ DecimalValue(d) = n

\* d is the decimal numeral of the integer n
IsNumeral(d, n) ==
    IF n < 0 THEN Len(d) >= 2 /\ d[1] = "-" /\ IsNatNumeral(Tail(d), -n)
    ELSE IsNatNumeral(d, n)

\* C14: a tools/call of add (multiply) with an id, version "2.0" and integer
\* a and b is answered with the success envelope {jsonrpc: "2.0", id: the
\* request's id, result: {content: [{type: "text", text: "Result: " followed
\* by the numeral of a+b (a*b)}]}}; add(2, 3) with id 1 gives "Result: 5".
C14_IntegerArithmetic ==
    \A s \in Slots :
        /\ Finished(s) /\ IsToolsCall(s)
        /\ request[s].params.keys = {"name", "arguments"}
        /\ request[s].params.name \in {StrV(<<"add">>), StrV(<<"multiply">>)}
        /\ request[s].params.arguments.t = "dict"
        /\ request[s].params.arguments.d["a"].t = "int"
        /\ request[s].params.arguments.d["b"].t = "int"
        => LET a == request[s].params.arguments.d["a"].n
               b == request[s].params.arguments.d["b"].n
               isAdd == request[s].params.name = StrV(<<"add">>)
               env == replies[s][1].envelope
           IN  /\ Len(replies[s]) = 1
               /\ replies[s][1].status = 200 /\ replies[s][1].json
               /\ env.keys = {"jsonrpc", "id", "result"}
               /\ env.jsonrpc = <<"2.0">>
               /\ env.id = request[s].id
               /\ env.result.kind = "content"
               /\ Len(env.result.content) = 1
               /\ env.result.content[1].type = "text"
               /\ LET text == env.result.content[1].text
                  IN  /\ Len(text) >= 2 /\ text[1] = "Result: "
                      /\ IsNumeral(Tail(text), IF isAdd THEN a + b ELSE a * b)
                      /\ isAdd /\ a = 2 /\ b = 3 => text = <<"Result: ", "5">>

\* C14 witness: add(2, 3) with id 1 has been answered with "Result: 5".
C14_Witness ==
    \E s \in Slots :
        /\ Finished(s)
        /\ request[s] = ToolRequest(IntV(1), "add",
                            [NoEntries EXCEPT !["a"] = IntV(2), !["b"] = IntV(3)])
        /\ replies[s][1].envelope.result.content[1].text = <<"Result: ", "5">>

\* connection s holds an answered call of reverse with a string for text
ReverseAnswered(s) ==
    /\ Finished(s) /\ IsToolsCall(s)
    /\ request[s].params.keys = {"name", "arguments"}
    /\ request[s].params.name = StrV(<<"reverse">>)
    /\ request[s].params.arguments.t = "dict"
    /\ request[s].params.arguments.d["text"].t = "str"

TextOf(s) == request[s].params.arguments.d["text"].s

\* the text of the answer without its "Result: "
ReversedOf(s) == Tail(replies[s][1].envelope.result.content[1].text)

\* C15: reverse of a string answers "Result: " followed by the same symbols
\* in reverse order, the empty string giving the empty string; and a call of
\* reverse on the text of that answer gives back the original string.
C15_Reverse ==
    \A s \in Slots :
        ReverseAnswered(s) =>
            /\ IsResultReply(replies[s][1])
            /\ replies[s][1].envelope.result.kind = "content"
            /\ replies[s][1].envelope.result.content[1].text[1] = "Result: "
            /\ Len(ReversedOf(s)) = Len(TextOf(s))
            /\ \A i \in 1..Len(TextOf(s)) :
                  ReversedOf(s)[i] = TextOf(s)[Len(TextOf(s)) + 1 - i]
            /\ \A t \in Slots :
                  ReverseAnswered(t) /\ TextOf(t) = ReversedOf(s) =>
                      ReversedOf(t) = TextOf(s)

\* C15 witness: a three-symbol text that is no palindrome has been reversed
\* and its answer has been reversed back.
C15_Witness ==
    \E s \in Slots : \E t \in Slots \ {s} :
        /\ ReverseAnswered(s) /\ ReverseAnswered(t)
        /\ TextOf(s) = <<"a", "U+00E9", "U+1F600">>
        /\ TextOf(t) = ReversedOf(s)
        /\ ReversedOf(t) = TextOf(s)

\* C16: a save_conversation call sends nothing while its POST is under way;
\* once it has sent its reply the POST has come to an outcome, and the reply
\* is the one that outcome makes: the result for a 201 with a usable body,
\* INVALID_PARAMS otherwise.
C16_AwaitBeforeReply ==
    \A s \in Slots :
        posts[s] > 0 =>
            /\ pc[s] = "awaiting" => replies[s] = <<>> /\ outcome[s] = NoOutcome
            /\ pc[s] = "resumed" => replies[s] = <<>> /\ outcome[s] # NoOutcome
            /\ replies[s] # <<>> =>
                  /\ outcome[s] # NoOutcome
                  /\ Len(replies[s]) = 1
                  /\ IF UsableCreated(outcome[s])
                     THEN IsResultReply(replies[s][1])
                     ELSE IsErrorReply(replies[s][1], -32602)

\* C16 witness: a save_conversation whose POST came to a 201 has been
\* answered with the result.
C16_Witness ==
    \E s \in Slots :
        /\ Finished(s) /\ posts[s] = 1
        /\ outcome[s].kind = "response" /\ outcome[s].status = 201
        /\ IsResultReply(replies[s][1])

\* the POST of connection s failed: no 201
PostFailed(s) ==
    outcome[s] # NoOutcome
        /\ ~(outcome[s].kind = "response" /\ outcome[s].status = 201)

\* C17: a call issues at most one POST; after a POST that failed (another
\* status than 201, a connection error, a timeout) the call posts no more
\* and its next step answers the caller with the error.
C17_NoRetry ==
    [][\A s \in Slots :
          /\ posts'[s] <= 1
          /\ pc[s] = "resumed" /\ PostFailed(s) /\ pc'[s] # pc[s] =>
                /\ pc'[s] = "done"
                /\ posts'[s] = posts[s]
                /\ Len(replies'[s]) = 1
                /\ IsErrorReply(replies'[s][1], -32602)]_vars

\* C17 witness: a call whose only POST timed out has been answered with the
\* error.
C17_Witness ==
    \E s \in Slots :
        /\ Finished(s) /\ posts[s] = 1
        /\ outcome[s].kind = "ReadTimeout"
        /\ IsErrorReply(replies[s][1], -32602)

\* C18: a failure raised in mcp_endpoint outside the try around the handler
\* call (here: hashing a list or dict tool name for the registry lookup) is
\* answered with an error envelope of code INTERNAL_ERROR, the failure's
\* message and the request's id; no handler ran, and no call ends in the
\* transport's 500.
C18_CatchAll ==
    \A s \in Slots :
        /\ \A i \in 1..Len(replies[s]) : replies[s][i] # ServerFault
        /\ Finished(s) /\ Route(request[s]).kind = "raise" =>
              /\ replies[s] =
                   <<JsonReply(ErrorEnvelope(request[s].id, -32603,
                                             Route(request[s]).text))>>
              /\ IsErrorReply(replies[s][1], -32603)
              /\ replies[s][1].envelope.id = request[s].id
              /\ invoked[s] = <<>>

\* C18 witness: a tools/call naming a list has been answered with
\* INTERNAL_ERROR and the TypeError's message.
C18_Witness ==
    \E s \in Slots :
        /\ Finished(s) /\ IsToolsCall(s)
        /\ Route(request[s]).kind = "raise"
        /\ request[s].params.name.t = "list"
        /\ IsErrorReply(replies[s][1], -32603)
        /\ replies[s][1].envelope.error.message =
              <<"unhashable type: '", "list", "'">>

\* the request of connection s is a tools/call with an id and version "2.0"
\* that names save_conversation and gives it a string `conversation`
SavesConversation(s) ==
    /\ IsToolsCall(s)
    /\ request[s].params.t = "dict"
    /\ {"name", "arguments"} \subseteq request[s].params.keys
    /\ request[s].params.name = StrV(<<"save_conversation">>)
    /\ request[s].params.arguments.t = "dict"
    /\ request[s].params.arguments.d["conversation"] # Absent
    /\ request[s].params.arguments.d["conversation"].t = "str"

\* C19: a POST has gone out only for a request with an id, version "2.0",
\* method tools/call, tool save_conversation and a string `conversation`;
\* every other request is answered with no POST at all, and such a request
\* posts exactly once.
C19_PostOnlyForSave ==
    \A s \in Slots :
        /\ posts[s] > 0 => pc[s] # "idle" /\ SavesConversation(s)
        /\ pc[s] \in {"awaiting", "resumed", "done"} =>
              posts[s] = (IF SavesConversation(s) THEN 1 ELSE 0)

\* C19 witness: a save_conversation call with a non-string `conversation`
\* has been answered with INVALID_PARAMS and no POST.
C19_Witness ==
    \E s \in Slots :
        /\ Finished(s) /\ IsToolsCall(s) /\ posts[s] = 0
        /\ request[s].params.t = "dict"
        /\ {"name", "arguments"} \subseteq request[s].params.keys
        /\ request[s].params.name = StrV(<<"save_conversation">>)
        /\ request[s].params.arguments.t = "dict"
        /\ request[s].params.arguments.d["conversation"] # Absent
        /\ request[s].params.arguments.d["conversation"].t # "str"
        /\ IsErrorReply(replies[s][1], -32602)

\* connection s has a request that is being dispatched or waits for its POST
InFlight(s) == pc[s] \in {"received", "awaiting", "resumed"}

\* connection s has its terminal outcome: the 204 for a notification,
\* otherwise one success or error response
Terminal(s) ==
    /\ pc[s] = "done"
    /\ Len(replies[s]) = 1
    /\ IF IsNotification(request[s])
       THEN replies[s][1] = NoContent
       ELSE IsResultReply(replies[s][1])
               \/ \E code \in {-32600, -32601, -32602, -32603} :
                     IsErrorReply(replies[s][1], code)

\* C20: with the endpoint scheduled fairly and every POST coming to an
\* outcome, each request in flight reaches its terminal outcome (the 204
\* for a notification, otherwise a success or error response); and a request
\* in flight only moves forward, received to awaiting or done, awaiting to
\* resumed, resumed to done: no step cancels it or takes its request away.
C20_Terminates ==
    /\ \A s \in Slots : InFlight(s) ~> Terminal(s)
    /\ [][\A s \in Slots :
            InFlight(s) /\ pc'[s] # pc[s] =>
                /\ request'[s] = request[s]
                /\ \/ pc[s] = "received" /\ pc'[s] \in {"awaiting", "done"}
                   \/ pc[s] = "awaiting" /\ pc'[s] = "resumed"
                   \/ pc[s] = "resumed" /\ pc'[s] = "done"]_vars

\* C20 witness: a notification has its 204 while a save_conversation whose
\* POST was refused has its error response.
C20_Witness ==
    \E s, t \in Slots :
        /\ s # t
        /\ Terminal(s) /\ IsNotification(request[s]) /\ replies[s][1] = NoContent
        /\ Terminal(t) /\ posts[t] = 1 /\ outcome[t].kind = "ConnectError"
        /\ IsErrorReply(replies[t][1], -32602)

====
